---- MODULE Spec2Model ----
(***************************************************************************)
(* FocusPop (src/app.ts): a Pomodoro timer with a task list, a history of  *)
(* archived sets, achievements and a localStorage snapshot.                *)
(*                                                                         *)
(* The application object is modelled field by field.  Every handler of    *)
(* FocusPopApp is a pure operator from an application state (a record of   *)
(* the fields) to the state the handler leaves behind, so that a handler   *)
(* that calls another one (resetTimer -> pauseTimer, completeSession ->    *)
(* pauseTimer, checkAchievements, saveData, ...) is the composition of the *)
(* operators.  An action applies one handler to the current variables.     *)
(*                                                                         *)
(* Of the DOM the model keeps the theme class of the document, which is    *)
(* saved and restored.  Not modelled: rendering and the other css classes, *)
(* audio and browser notifications, and the character-bubble hide timers.  *)
(* The messages the handlers show are kept as the events of the last       *)
(* handler run (variable out).                                             *)
(***************************************************************************)
EXTENDS Integers, Sequences, FiniteSets

VARIABLES
    currentMode,        \* this.currentMode
    timeLeft,           \* this.timeLeft (seconds)
    isRunning,          \* this.isRunning
    timer,              \* this.timer: "null", "live" (an active interval), "cleared"
    orphans,            \* active intervals that this.timer no longer refers to
    completedSessions,  \* this.completedSessions
    totalBreaks,        \* this.totalBreaks
    tasks,              \* this.tasks: sequence of Task objects
    history,            \* this.history: sequence of PomodoroSet objects
    achievements,       \* unlocked / unlockedDate of each entry of this.achievements
    isDark,             \* document.documentElement.classList.contains('dark')
    storage,            \* localStorage['focusAppData']
    timeouts,           \* pending setTimeout(() => switchMode(m), 1000) callbacks, oldest first,
                        \* each with the interval firings since it was set: seen, of the
                        \* intervals this.timer named, and beside, of the orphans (old of
                        \* them set before the callback)
    messages,           \* pending setTimeout(() => showCharacterMessage(...)) callbacks
                        \* (welcome, 1500 ms; milestone, 5000 ms), oldest first
    out,                \* what the last handler run showed: character messages, alerts
    now,                \* Date.now(), an abstract monotonic clock
    hour,               \* new Date().getHours()
    app,                \* the global app names the application (FALSE: undefined)
    lastOp,             \* observer: the handler that ran last
    cd                  \* observer: the countdown since the timer was started on a full, idle timer

vars == <<currentMode, timeLeft, isRunning, timer, orphans, completedSessions,
          totalBreaks, tasks, history, achievements, isDark, storage,
          timeouts, messages, out, now, hour, app, lastOp, cd>>

---------------------------------------------------------------------------
(* Bounds of the model *)

\* completedSessions of the current set is not driven beyond this
MaxSessions == 4
\* intervals left running behind this.timer (startTimer pressed again while running)
MaxOrphans == 1
\* deferred switchMode callbacks pending at the same time
MaxTimeouts == 1
\* how far below zero an interval left running may drive timeLeft
MaxOverrun == 2
\* tasks in the active list
MaxTasks == 2
\* records in history
MaxHistory == 1
\* the clock readings 1..MaxClock
MaxClock == 2
\* records in history where the order of the archive is followed
MaxArchived == 2
\* sessions counted in the set up to which a work countdown is started beside
\* the task and archive handlers
MaxCounted == 1
\* sessions of a set that is never archived
MaxLongSet == 9
\* tasks in the active list while a countdown is followed
MaxBeside == 1
\* sessions of a set whose completions are followed hour by hour
MaxRuled == 3
\* seconds from the start or from the end of a countdown within which the
\* task and archive handlers run beside the interval
MaxEdge == 1

---------------------------------------------------------------------------
(* Configuration: this.modes *)

Modes == {"work", "short-break", "long-break"}

\* The names this.modes has without holding them itself, those of
\* Object.prototype: this.modes[name] is a function or an object that has
\* no duration and no label.  For every other name that is no mode
\* this.modes[name] is undefined.
InheritedKeys ==
    {"constructor", "__proto__", "hasOwnProperty", "isPrototypeOf",
     "propertyIsEnumerable", "toLocaleString", "toString", "valueOf",
     "__defineGetter__", "__defineSetter__", "__lookupGetter__",
     "__lookupSetter__"}

\* The values of this.timeLeft that are no number of seconds.  timeLeft is
\* an integer in the model: they are written as integers that no countdown
\* and no file reaches.
undefined == -1000001
NaN == -1000002
null == -1000003

\* this.modes[mode].duration, where this.modes[mode] is defined
duration(mode) ==
    CASE mode = "work" -> 25 * 60
      [] mode = "short-break" -> 5 * 60
      [] mode = "long-break" -> 15 * 60
      [] mode \in InheritedKeys -> undefined

\* this.timeLeft-- : the number before it, null counting as 0
decrement(x) ==
    CASE x = undefined -> NaN
      [] x = NaN -> NaN
      [] x = null -> -1
      [] OTHER -> x - 1

\* x <= 0 as JavaScript compares: false for NaN and undefined, null as 0
atMostZero(x) == x \notin {undefined, NaN} /\ (x = null \/ x <= 0)

\* Math.floor(this.modes.work.duration / 2)
halfWork == duration("work") \div 2

\* the hours of the day the model distinguishes: one before 7, one from 7 to
\* 21, one from 22 on
Hours == {6, 12, 22}

NoDate == 0       \* unlockedDate undefined
\* localStorage.getItem returns null; a stored snapshot is jsonBlob(data)
NoData == [kind |-> "none"]
jsonBlob(data) == [kind |-> "json", data |-> data]

Ev(kind, arg) == [kind |-> kind, arg |-> arg]

---------------------------------------------------------------------------
(* Sequence helpers *)

RECURSIVE SumSeq(_)
SumSeq(q) == IF q = <<>> THEN 0 ELSE Head(q) + SumSeq(Tail(q))

\* Array.prototype.map
Map(f(_), q) == [i \in 1..Len(q) |-> f(q[i])]

\* Array.prototype.filter
RECURSIVE Filter(_, _)
Filter(p(_), q) ==
    IF q = <<>> THEN <<>>
    ELSE IF p(Head(q)) THEN <<Head(q)>> \o Filter(p, Tail(q))
    ELSE Filter(p, Tail(q))

Range(q) == {q[i] : i \in 1..Len(q)}

---------------------------------------------------------------------------
(* The achievement table: ids in the order of this.achievements *)

AchievementIds ==
    <<"first-blood", "getting-serious", "procrastination-slayer", "night-owl",
      "early-bird", "task-master", "marathon", "consistency", "overachiever",
      "multitasker", "speed-demon", "zen-master">>

AchIdSet == Range(AchievementIds)

completedCount(set) == Len(Filter(LAMBDA t : t.completed, set.tasks))

\* sum of completedSessions over history
historySessions(s) == SumSeq(Map(LAMBDA set : set.completedSessions, s.history))

\* achievement.condition(app)
condition(id, s) ==
    CASE id = "first-blood" -> s.completedSessions >= 1
      [] id = "getting-serious" ->
            \E i \in 1..Len(s.history) : s.history[i].completedSessions >= 8
      [] id = "procrastination-slayer" -> Len(s.history) >= 3
      [] id = "night-owl" -> s.hour >= 22 /\ s.completedSessions >= 1
      [] id = "early-bird" -> s.hour < 7 /\ s.completedSessions >= 1
      [] id = "task-master" ->
            SumSeq(Map(completedCount, s.history)) >= 10
      [] id = "marathon" -> Len(s.history) >= 5
      [] id = "consistency" -> historySessions(s) + s.completedSessions >= 10
      [] id = "overachiever" -> historySessions(s) + s.completedSessions >= 50
      [] id = "multitasker" ->
            \E i \in 1..Len(s.history) : Len(s.history[i].tasks) >= 5
      [] id = "speed-demon" -> s.completedSessions >= 3
      [] id = "zen-master" -> s.totalBreaks >= 20

\* the table as constructed: every entry unlocked: false, no unlockedDate
lockedTable == [id \in AchIdSet |-> [unlocked |-> FALSE, unlockedDate |-> NoDate]]

---------------------------------------------------------------------------
(* The application state as a record, and the state after field
   initialisation (before loadData) *)

S == [currentMode |-> currentMode, timeLeft |-> timeLeft, isRunning |-> isRunning,
      timer |-> timer, orphans |-> orphans,
      completedSessions |-> completedSessions, totalBreaks |-> totalBreaks,
      tasks |-> tasks, history |-> history, achievements |-> achievements,
      isDark |-> isDark,
      storage |-> storage, timeouts |-> timeouts, messages |-> messages,
      out |-> out,
      now |-> now, hour |-> hour, app |-> app]

Fresh(store, t, h) ==
    [currentMode |-> "work", timeLeft |-> 25 * 60, isRunning |-> FALSE,
     timer |-> "null", orphans |-> 0,
     completedSessions |-> 0, totalBreaks |-> 0,
     tasks |-> <<>>, history |-> <<>>, achievements |-> lockedTable,
     isDark |-> FALSE,
     storage |-> store, timeouts |-> <<>>, messages |-> <<>>, out |-> <<>>,
     now |-> t, hour |-> h, app |-> FALSE]

\* number of intervals whose callback still fires
activeIntervals(s) == s.orphans + (IF s.timer = "live" THEN 1 ELSE 0)

\* showCharacterMessage(messageType, ...)
showCharacterMessage(s, kind) == [s EXCEPT !.out = Append(@, Ev(kind, ""))]

\* an exception leaves the statement that raised it: the handler run records
\* it, and the callers skip what follows until a catch
throw(s, error) == [s EXCEPT !.out = Append(@, Ev("throw", error))]

threw(s) == \E i \in 1..Len(s.out) : s.out[i].kind = "throw"

---------------------------------------------------------------------------
(* Persistence: JSON.stringify of the AppData object, and JSON.parse.
   A Task object carries an object identity (oid) in the model; JSON keeps
   the values only.  An achievement is written with its id, unlocked and,
   when defined, unlockedDate (JSON.stringify drops undefined and
   functions; name, description and icon are constants of the table). *)

taskJSON(t) == [id |-> t.id, text |-> t.text, completed |-> t.completed]

setJSON(set) ==
    [id |-> set.id, date |-> set.date, name |-> set.name,
     completedSessions |-> set.completedSessions,
     tasks |-> Map(taskJSON, set.tasks)]

achJSON(s, id) ==
    IF s.achievements[id].unlockedDate = NoDate
    THEN [id |-> id, unlocked |-> s.achievements[id].unlocked]
    ELSE [id |-> id, unlocked |-> s.achievements[id].unlocked,
          unlockedDate |-> s.achievements[id].unlockedDate]

\* the object saveData and exportData build, with a timeLeft that is a
\* number
AppData(s) ==
    [currentMode |-> s.currentMode,
     timeLeft |-> s.timeLeft,
     completedSessions |-> s.completedSessions,
     tasks |-> Map(taskJSON, s.tasks),
     isDark |-> s.isDark,
     history |-> Map(setJSON, s.history),
     achievements |-> [i \in 1..Len(AchievementIds) |-> achJSON(s, AchievementIds[i])],
     totalBreaks |-> s.totalBreaks]

\* JSON.stringify followed by JSON.parse: a field that is undefined is
\* dropped, NaN is written as null
serialize(s) ==
    IF s.timeLeft = undefined
    THEN [f \in DOMAIN AppData(s) \ {"timeLeft"} |-> AppData(s)[f]]
    ELSE IF s.timeLeft = NaN THEN [AppData(s) EXCEPT !.timeLeft = null]
    ELSE AppData(s)

saveData(s) == [s EXCEPT !.storage = jsonBlob(serialize(s))]

\* the theme button: the class of the document is toggled, the snapshot saved
toggleTheme(s) == saveData([s EXCEPT !.isDark = ~@])

has(obj, f) == f \in DOMAIN obj

---------------------------------------------------------------------------
(* Achievement evaluation *)

\* a variant of newUnlocks that stops at the first rule that holds
newUnlocks_firstOnly(s) ==
    LET all == Filter(LAMBDA id : ~s.achievements[id].unlocked
                                     /\ condition(id, s),
                      AchievementIds)
    IN  IF all = <<>> THEN <<>> ELSE <<Head(all)>>

\* the entries checkAchievements pushes to newUnlocks, in table order
newUnlocks(s) ==
    Filter(LAMBDA id : ~s.achievements[id].unlocked /\ condition(id, s),
           AchievementIds)

showAchievementNotification(s, id) ==
    [s EXCEPT !.out = Append(@, Ev("achievement", id))]

\* the forEach of checkAchievements: unlock and stamp every entry of nu
unlockAll(s, nu) ==
    [s EXCEPT !.achievements =
        [id \in AchIdSet |->
            IF id \in Range(nu)
            THEN [unlocked |-> TRUE, unlockedDate |-> s.now]
            ELSE @[id]]]

\* a variant of checkAchievements that reports the last new unlock
checkAchievements_notifyLast(s) ==
    LET nu == newUnlocks(s)
        s1 == unlockAll(s, nu)
    IN  IF Len(nu) > 0
        THEN saveData(showAchievementNotification(s1, nu[Len(nu)]))
        ELSE s1

checkAchievements(s) ==
    LET nu == newUnlocks(s)
        s1 == unlockAll(s, nu)
    IN  IF Len(nu) > 0
        THEN saveData(showAchievementNotification(s1, nu[1]))
        ELSE s1

---------------------------------------------------------------------------
(* The timer *)

\* a variant of switchMode without the isRunning guard
switchMode_unguarded(s, mode) ==
    saveData([s EXCEPT !.currentMode = mode, !.timeLeft = duration(mode)])

switchMode(s, mode) ==
    IF s.isRunning THEN s
    ELSE IF mode \in Modes
         THEN saveData([s EXCEPT !.currentMode = mode,
                                 !.timeLeft = duration(mode)])
    ELSE IF mode \in InheritedKeys
         THEN \* both fields are assigned; no button has the mode:
              \* activeBtn is null and reading .classList throws
              throw([s EXCEPT !.currentMode = mode,
                              !.timeLeft = duration(mode)], "TypeError")
    ELSE \* this.modes[mode] is undefined: reading .duration throws,
         \* after currentMode was assigned
         throw([s EXCEPT !.currentMode = mode], "TypeError")

\* setInterval: this.timer now names the new interval; an interval it named
\* before keeps firing
startTimer(s) ==
    LET s1 == [s EXCEPT !.isRunning = TRUE]
        s2 == IF s1.currentMode = "work"
              THEN showCharacterMessage(s1, "sessionStart")
              ELSE showCharacterMessage(s1, "breakStart")
    IN  [s2 EXCEPT !.orphans = IF s.timer = "live" THEN @ + 1 ELSE @,
                   !.timer = "live"]

\* a variant of pauseTimer that leaves the interval running
pauseTimer_keepsInterval(s) ==
    [s EXCEPT !.isRunning = FALSE]

\* clearInterval(this.timer) stops the interval this.timer names, no other
pauseTimer(s) ==
    [s EXCEPT !.isRunning = FALSE,
              !.timer = IF @ = "live" THEN "cleared" ELSE @]

\* a variant of resetTimer that does not pause
resetTimer_keepsRunning(s) ==
    IF s.currentMode \notin Modes \cup InheritedKeys
    THEN throw(s, "TypeError")
    ELSE saveData([s EXCEPT !.timeLeft = duration(s.currentMode)])

\* this.modes[this.currentMode].duration throws where this.modes has no
\* such name, and is undefined for a name it inherits
resetTimer(s) ==
    LET s1 == pauseTimer(s)
    IN  IF s1.currentMode \notin Modes \cup InheritedKeys
        THEN throw(s1, "TypeError")
        ELSE saveData([s1 EXCEPT !.timeLeft = duration(s1.currentMode)])

\* a variant of nextMode that reads the count as it was before the session
nextMode_beforeCount(s) ==
    IF s.currentMode = "work"
    THEN (IF (s.completedSessions - 1) % 4 = 0 THEN "long-break"
          ELSE "short-break")
    ELSE "work"

\* a variant of nextMode with a long break after every third session
nextMode_everyThird(s) ==
    IF s.currentMode = "work"
    THEN (IF s.completedSessions % 3 = 0 THEN "long-break" ELSE "short-break")
    ELSE "work"

\* the mode the completion hands to the deferred switchMode
nextMode(s) ==
    IF s.currentMode = "work"
    THEN (IF s.completedSessions % 4 = 0 THEN "long-break" ELSE "short-break")
    ELSE "work"

\* a variant of countSession that counts breaks as sessions
countSession_everyMode(s) ==
    showCharacterMessage([s EXCEPT !.completedSessions = @ + 1],
                         IF s.currentMode = "work" THEN "sessionComplete"
                         ELSE "breakComplete")

\* the work branch of completeSession: count the session, show the message
countSession(s) ==
    IF s.currentMode = "work"
    THEN showCharacterMessage([s EXCEPT !.completedSessions = @ + 1],
                              "sessionComplete")
    ELSE showCharacterMessage(s, "breakComplete")

\* setTimeout(() => this.switchMode(mode), 1000): the callback as it is
\* registered.  No interval has fired since, and old of the intervals that
\* fire were set before it (the orphans: the interval this.timer names is
\* cleared)
setTimeout(s, mode) ==
    [s EXCEPT !.timeouts =
        Append(@, [mode |-> mode, kind |-> "switch",
                   seen |-> 0, beside |-> 0, old |-> s.orphans])]

\* setTimeout(() => this.showCharacterMessage(kind, ...), ms): the callback
\* with the interval firings seen since it was set and the deferred switches
\* that are due before it
setMessageTimeout(s, kind, ahead) ==
    [s EXCEPT !.messages =
        Append(@, [kind |-> kind, ahead |-> ahead,
                   seen |-> 0, beside |-> 0, old |-> s.orphans])]

\* the milestone of the work branch: every fourth session, set before the
\* deferred switch of the same completion, due 4000 ms after it
milestoneTimeout(s) ==
    IF s.currentMode = "work" /\ s.completedSessions % 4 = 0
    THEN setMessageTimeout(s, "milestone", Len(s.timeouts) + 1)
    ELSE s

completeSession(s) ==
    LET s1 == pauseTimer(s)
        s2 == milestoneTimeout(countSession(s1))
        s3 == checkAchievements(s2)
        s4 == setTimeout(s3, nextMode(s3))
    IN  IF s2.currentMode \notin Modes \cup InheritedKeys
        THEN \* this.modes[this.currentMode].label throws before the
             \* achievements, the setTimeout and the save
             throw(s2, "TypeError")
        ELSE \* for a name this.modes inherits the label is undefined and
             \* the completion goes on as that of a break
             saveData(s4)

\* a variant of the callback that encourages from the half on
tick_belowHalf(s) ==
    LET s1 == [s EXCEPT !.timeLeft = decrement(@)]
        s2 == IF s1.currentMode = "work" /\ s1.timeLeft # NaN
                 /\ s1.timeLeft <= halfWork
              THEN showCharacterMessage(s1, "encouragement")
              ELSE s1
    IN  IF atMostZero(s2.timeLeft) THEN completeSession(s2) ELSE s2

\* the setInterval callback of startTimer
tick(s) ==
    LET s1 == [s EXCEPT !.timeLeft = decrement(@)]
        s2 == IF s1.currentMode = "work" /\ s1.timeLeft = halfWork
              THEN showCharacterMessage(s1, "encouragement")
              ELSE s1
    IN  IF atMostZero(s2.timeLeft) THEN completeSession(s2) ELSE s2

\* the intervals that may fire: the one this.timer names, or one it named
\* before and no longer does
Intervals == {"timer", "orphan"}

\* the pending callbacks after one more firing of an interval: seen counts
\* the firings of intervals this.timer named when they fired, beside those
\* of the others
aged(q, from) ==
    [i \in 1..Len(q) |->
        IF from = "timer" THEN [q[i] EXCEPT !.seen = @ + 1]
                          ELSE [q[i] EXCEPT !.beside = @ + 1]]

\* one firing of an interval, one task of the event loop: the callbacks that
\* were pending have seen it, the callback of the interval runs (the same
\* callback whichever interval fires)
fire(s, from) ==
    tick([s EXCEPT !.timeouts = aged(@, from), !.messages = aged(@, from)])

---------------------------------------------------------------------------
(* Objects read back from JSON.  JSON.parse builds new Task objects: the
   model numbers them 1, 2, ... through tasks and then through history, the
   objects the application held before being unreachable from then on. *)

reviveTasks(q, base) ==
    [i \in 1..Len(q) |->
        [oid |-> base + i, id |-> q[i].id, text |-> q[i].text,
         completed |-> q[i].completed]]

RECURSIVE reviveHistory(_, _)
reviveHistory(q, base) ==
    IF q = <<>> THEN <<>>
    ELSE <<[Head(q) EXCEPT !.tasks = reviveTasks(@, base)]>>
         \o reviveHistory(Tail(q), base + Len(Head(q).tasks))

\* a variant of restoreAchievements that adds the entries it does not find
RECURSIVE restoreAchievements_addsUnknown(_, _)
restoreAchievements_addsUnknown(table, saved) ==
    IF saved = <<>> THEN table
    ELSE LET a == Head(saved)
             t1 == [id \in DOMAIN table \cup {a.id} |->
                      IF id = a.id
                      THEN [unlocked |-> a.unlocked,
                            unlockedDate |-> IF has(a, "unlockedDate")
                                             THEN a.unlockedDate ELSE NoDate]
                      ELSE table[id]]
         IN  restoreAchievements_addsUnknown(t1, Tail(saved))

\* achievements.forEach(savedAch => { find by id; copy unlocked, unlockedDate })
RECURSIVE restoreAchievements(_, _)
restoreAchievements(table, saved) ==
    IF saved = <<>> THEN table
    ELSE LET a == Head(saved)
             t1 == IF a.id \in DOMAIN table
                   THEN [table EXCEPT ![a.id] =
                            [unlocked |-> a.unlocked,
                             unlockedDate |-> IF has(a, "unlockedDate")
                                              THEN a.unlockedDate ELSE NoDate]]
                   ELSE table
         IN  restoreAchievements(t1, Tail(saved))

\* a variant of loadFields that does not read the history
loadFields_withoutHistory(s, d) ==
    LET ts == IF has(d, "tasks") THEN reviveTasks(d.tasks, 0) ELSE <<>>
    IN  [s EXCEPT
            !.currentMode = d.currentMode,
            !.timeLeft = IF has(d, "timeLeft") THEN d.timeLeft ELSE undefined,
            !.completedSessions = d.completedSessions,
            !.tasks = ts,
            !.totalBreaks = IF has(d, "totalBreaks") THEN d.totalBreaks ELSE 0,
            !.achievements = IF has(d, "achievements")
                             THEN restoreAchievements(@, d.achievements) ELSE @,
            !.isDark = has(d, "isDark") /\ d.isDark]

\* the assignments of loadData, before its switchMode
loadFields(s, d) ==
    LET ts == IF has(d, "tasks") THEN reviveTasks(d.tasks, 0) ELSE <<>>
    IN  [s EXCEPT
            !.currentMode = d.currentMode,
            !.timeLeft = IF has(d, "timeLeft") THEN d.timeLeft ELSE undefined,
            !.completedSessions = d.completedSessions,
            !.tasks = ts,
            !.history = IF has(d, "history")
                        THEN reviveHistory(d.history, Len(ts)) ELSE <<>>,
            !.totalBreaks = IF has(d, "totalBreaks") THEN d.totalBreaks ELSE 0,
            !.achievements = IF has(d, "achievements")
                             THEN restoreAchievements(@, d.achievements) ELSE @,
            !.isDark = has(d, "isDark") /\ d.isDark]

\* no try/catch: what JSON.parse or switchMode throws leaves loadData and
\* the constructor
loadData(s) ==
    IF s.storage.kind = "none" THEN s
    ELSE IF s.storage.kind = "garbage" THEN throw(s, "SyntaxError")
    ELSE LET s1 == loadFields(s, s.storage.data)
         IN  switchMode(s1, s1.currentMode)

\* setTimeout(() => this.showCharacterMessage('welcome', 'happy'), 1500)
showWelcomeMessage(s) == setMessageTimeout(s, "welcome", 0)

\* new FocusPopApp(): field initialisers, then loadData and
\* showWelcomeMessage; what loadData throws leaves the constructor
FocusPopApp(store, t, h) ==
    LET s == loadData(Fresh(store, t, h))
    IN  IF threw(s) THEN s ELSE showWelcomeMessage(s)

\* initializeApp: app = new FocusPopApp().  When the constructor throws, app
\* stays undefined; the listeners that init() bound to the buttons keep the
\* object that was being constructed
construct(store, t, h) ==
    LET s == FocusPopApp(store, t, h)
    IN  IF threw(s) THEN s ELSE [s EXCEPT !.app = TRUE]

---------------------------------------------------------------------------
(* Import of a backup file.  file.kind: "garbage" (JSON.parse throws),
   "null" (parses to something that is not an object), "json", "array"
   (parses to an array: typeof gives 'object', and it has none of the
   fields). *)

\* importedData.x || dflt, for a number
numOr(d, f, dflt) == IF has(d, f) /\ d[f] \notin {0, null} THEN d[f] ELSE dflt

importFields(s, d) ==
    LET ts == IF has(d, "tasks") THEN reviveTasks(d.tasks, 0) ELSE <<>>
    IN  [s EXCEPT
            !.currentMode = IF has(d, "currentMode") /\ d.currentMode # ""
                            THEN d.currentMode ELSE "work",
            !.timeLeft = numOr(d, "timeLeft", 25 * 60),
            !.completedSessions = numOr(d, "completedSessions", 0),
            !.tasks = ts,
            !.history = IF has(d, "history")
                        THEN reviveHistory(d.history, Len(ts)) ELSE <<>>,
            !.totalBreaks = numOr(d, "totalBreaks", 0),
            !.isDark = has(d, "isDark") /\ d.isDark,
            !.achievements = IF has(d, "achievements")
                             THEN restoreAchievements(@, d.achievements) ELSE @]

alert(s) == [s EXCEPT !.out = Append(@, Ev("alert", ""))]

\* reader.onerror of importData: the alert, nothing else
readError(s) == alert(s)

\* reader.onload of importData
importData(s, file, confirmed) ==
    IF file.kind = "garbage" THEN alert(throw(s, "SyntaxError"))
    ELSE IF file.kind = "null" THEN alert(throw(s, "Error"))
    ELSE IF ~confirmed THEN s
    ELSE LET s1 == importFields(s, file.data)
             s2 == switchMode(s1, s1.currentMode)
         IN  IF threw(s2) THEN alert(s2)
             ELSE showCharacterMessage(saveData(s2), "milestone")

---------------------------------------------------------------------------
(* Tasks.  A text is a sequence of characters. *)

\* the white space and line terminators String.prototype.trim removes, as
\* far as a one-character TLA+ string can hold them: space, tab, line feed,
\* carriage return, form feed and the vertical tab U+000B, the last written
\* as the character itself (the others, such as U+00A0 and U+FEFF, are
\* removed in the same way)
WhiteSpace == {" ", "\t", "\n", "\r", "\f", ""}

RECURSIVE trimStart(_)
trimStart(q) ==
    IF q # <<>> /\ Head(q) \in WhiteSpace THEN trimStart(Tail(q)) ELSE q

RECURSIVE trimEnd(_)
trimEnd(q) ==
    IF q # <<>> /\ q[Len(q)] \in WhiteSpace
    THEN trimEnd(SubSeq(q, 1, Len(q) - 1))
    ELSE q

\* String.prototype.trim
trim(q) == trimEnd(trimStart(q))

\* the oids of the Task objects reachable from the application
usedOids(s) ==
    {s.tasks[i].oid : i \in 1..Len(s.tasks)}
    \cup UNION {{s.history[k].tasks[i].oid : i \in 1..Len(s.history[k].tasks)} :
                k \in 1..Len(s.history)}

\* a new object: the least oid no reachable object has
newOid(s) ==
    CHOOSE n \in 1..(Cardinality(usedOids(s)) + 1) :
        /\ n \notin usedOids(s)
        /\ \A m \in 1..(n - 1) : m \in usedOids(s)

\* a variant of addTask that tests and stores the text as typed
addTask_untrimmed(s, input) ==
    IF input # <<>>
    THEN saveData([s EXCEPT !.tasks =
            Append(@, [oid |-> newOid(s), id |-> s.now, text |-> input,
                       completed |-> FALSE])])
    ELSE s

addTask(s, input) ==
    LET text == trim(input)
    IN  IF text # <<>>
        THEN saveData([s EXCEPT !.tasks =
                Append(@, [oid |-> newOid(s), id |-> s.now, text |-> text,
                           completed |-> FALSE])])
        ELSE s

\* this.tasks.find(t => t.id === taskId): the index of the first, 0 if none
findTask(q, taskId) ==
    IF \E i \in 1..Len(q) : q[i].id = taskId
    THEN CHOOSE i \in 1..Len(q) :
            q[i].id = taskId /\ \A j \in 1..(i - 1) : q[j].id # taskId
    ELSE 0

\* task.completed = !task.completed on the object oid, seen through every
\* reference to it
flipObject(q, oid) ==
    [i \in 1..Len(q) |->
        IF q[i].oid = oid THEN [q[i] EXCEPT !.completed = ~@] ELSE q[i]]

\* a variant of toggleTask that shows the message on every toggle
toggleTask_alwaysCelebrates(s, taskId) ==
    LET i == findTask(s.tasks, taskId)
    IN  IF i = 0 THEN s
        ELSE LET oid == s.tasks[i].oid
                 s1 == [s EXCEPT
                          !.tasks = flipObject(@, oid),
                          !.history = [k \in 1..Len(@) |->
                              [@[k] EXCEPT !.tasks = flipObject(@, oid)]]]
             IN  saveData(showCharacterMessage(s1, "taskComplete"))

toggleTask(s, taskId) ==
    LET i == findTask(s.tasks, taskId)
    IN  IF i = 0 THEN s
        ELSE LET oid == s.tasks[i].oid
                 s1 == [s EXCEPT
                          !.tasks = flipObject(@, oid),
                          !.history = [k \in 1..Len(@) |->
                              [@[k] EXCEPT !.tasks = flipObject(@, oid)]]]
                 s2 == IF s1.tasks[i].completed
                       THEN showCharacterMessage(s1, "taskComplete")
                       ELSE s1
             IN  saveData(s2)

\* a variant of deleteTask whose filter keeps what it should drop
deleteTask_keepsMatching(s, taskId) ==
    saveData([s EXCEPT !.tasks = Filter(LAMBDA t : t.id = taskId, @)])

deleteTask(s, taskId) ==
    saveData([s EXCEPT !.tasks = Filter(LAMBDA t : t.id # taskId, @)])

---------------------------------------------------------------------------
(* History *)

Digits == <<"0", "1", "2", "3", "4", "5", "6", "7", "8", "9">>

\* the decimal digits of n, as a template literal writes them
RECURSIVE decimal(_)
decimal(n) ==
    IF n < 10 THEN <<Digits[n + 1]>>
    ELSE decimal(n \div 10) \o <<Digits[(n % 10) + 1]>>

\* setNameInput.value.trim() || `Set ${this.history.length + 1}`
setName(s, input) ==
    IF trim(input) # <<>> THEN trim(input)
    ELSE <<"S", "e", "t", " ">> \o decimal(Len(s.history) + 1)

\* a variant of setData built after the counters were reset
setData_afterReset(s, input) ==
    [id |-> s.now, name |-> setName(s, input), date |-> s.now,
     completedSessions |-> 0, tasks |-> <<>>]

\* the record finishCurrentSet builds; tasks: [...this.tasks] copies the
\* array, the Task objects are the same
setData(s, input) ==
    [id |-> s.now, name |-> setName(s, input), date |-> s.now,
     completedSessions |-> s.completedSessions, tasks |-> s.tasks]

\* a variant of finishCurrentSet that keeps the active list
clearedTasks_kept(s) == s.tasks

\* what finishCurrentSet leaves in this.tasks
clearedTasks(s) == <<>>

\* a variant of finishCurrentSet that also resets the timer
finishCurrentSet_resetsTimer(s, input) ==
    LET s1 == [pauseTimer(s) EXCEPT
                        !.history = <<setData(s, input)>> \o @,
                        !.completedSessions = 0,
                        !.tasks = clearedTasks(s),
                        !.timeLeft = duration("work"),
                        !.currentMode = "work"]
    IN  showCharacterMessage(saveData(s1), "milestone")

\* a variant of finishCurrentSet that adds the record at the end
finishCurrentSet_appends(s, input) ==
    LET s1 == [s EXCEPT !.history = Append(@, setData(s, input)),
                        !.completedSessions = 0,
                        !.tasks = clearedTasks(s)]
    IN  showCharacterMessage(saveData(s1), "milestone")

finishCurrentSet(s, input) ==
    LET s1 == [s EXCEPT !.history = <<setData(s, input)>> \o @,
                        !.completedSessions = 0,
                        !.tasks = clearedTasks(s)]
    IN  showCharacterMessage(saveData(s1), "milestone")

\* a variant of startNewSet that does not ask
startNewSet_unconfirmed(s, input, confirmed) ==
    IF s.completedSessions > 0 \/ Len(s.tasks) > 0
    THEN finishCurrentSet(s, input)
    ELSE showCharacterMessage(s, "welcome")

startNewSet(s, input, confirmed) ==
    IF s.completedSessions > 0 \/ Len(s.tasks) > 0
    THEN (IF confirmed THEN finishCurrentSet(s, input) ELSE s)
    ELSE showCharacterMessage(s, "welcome")

deleteHistory(s, setId) ==
    saveData([s EXCEPT !.history = Filter(LAMBDA r : r.id # setId, @)])

---------------------------------------------------------------------------
(* Inputs *)

\* what the user types in the task box
TaskInputs == {<<>>, <<" ">>, <<"\t">>, <<"">>, <<"\t", "a", "">>}

\* what the user types in the set-name box
NameInputs == {<<>>, <<"">>, <<"x">>}

\* ids handed to toggleTask, deleteTask, deleteHistory: the clock readings
\* (every id is one) and 0, which no object has
IdArgs == 0..MaxClock

\* A snapshot written by the first version of the application
\* (src/unnamed/part_000, saveData): no history, achievements, totalBreaks
OldSnapshot ==
    [currentMode |-> "short-break", timeLeft |-> 120, completedSessions |-> 2,
     tasks |-> <<[id |-> 1, text |-> <<"a">>, completed |-> TRUE]>>,
     isDark |-> TRUE]

\* A backup exported by the current version, paused in the last second of
\* the third work session of the day
Backup ==
    [currentMode |-> "work", timeLeft |-> 1, completedSessions |-> 2,
     tasks |-> <<[id |-> 2, text |-> <<"b">>, completed |-> FALSE]>>,
     history |-> <<[id |-> 1, date |-> 1, name |-> <<"x">>,
                    completedSessions |-> 4,
                    tasks |-> <<[id |-> 1, text |-> <<"a">>,
                                 completed |-> TRUE]>>]>>,
     achievements |->
        [i \in 1..Len(AchievementIds) |->
            IF AchievementIds[i] = "first-blood"
            THEN [id |-> "first-blood", unlocked |-> TRUE, unlockedDate |-> 1]
            ELSE [id |-> AchievementIds[i], unlocked |-> FALSE]],
     isDark |-> FALSE,
     totalBreaks |-> 0]

\* A file whose mode is none of the three, with a session count and a task
BadModeFile ==
    [currentMode |-> "focus", timeLeft |-> 7, completedSessions |-> 3,
     tasks |-> <<[id |-> 2, text |-> <<"b">>, completed |-> FALSE]>>,
     history |-> <<>>, totalBreaks |-> 4]

\* A file whose mode is a name this.modes inherits
InheritedModeFile ==
    [currentMode |-> "constructor", timeLeft |-> 2, completedSessions |-> 1,
     tasks |-> <<>>, history |-> <<>>, totalBreaks |-> 0]

\* A backup written for another rule table: it has an entry for speed-demon
\* and one for a rule this version does not have, none for the other rules
PartialBackup ==
    [currentMode |-> "work", timeLeft |-> 1, completedSessions |-> 1,
     tasks |-> <<>>, history |-> <<>>,
     achievements |->
        <<[id |-> "speed-demon", unlocked |-> TRUE, unlockedDate |-> 1],
          [id |-> "retired", unlocked |-> TRUE, unlockedDate |-> 1]>>,
     totalBreaks |-> 0]

\* the snapshots whose achievements are restored
RestoreFiles == {jsonBlob(PartialBackup), jsonBlob(Backup)}

\* A snapshot stored by the current version in the middle of a long break,
\* with a task, an archived set and breaks counted
FullSnapshot ==
    [currentMode |-> "long-break", timeLeft |-> 450, completedSessions |-> 3,
     tasks |-> <<[id |-> 2, text |-> <<"b">>, completed |-> FALSE]>>,
     history |-> <<[id |-> 1, date |-> 1, name |-> <<"x">>,
                    completedSessions |-> 4,
                    tasks |-> <<[id |-> 1, text |-> <<"a">>,
                                 completed |-> TRUE]>>]>>,
     achievements |->
        [i \in 1..Len(AchievementIds) |->
            IF AchievementIds[i] = "speed-demon"
            THEN [id |-> "speed-demon", unlocked |-> TRUE, unlockedDate |-> 1]
            ELSE [id |-> AchievementIds[i], unlocked |-> FALSE]],
     isDark |-> TRUE,
     totalBreaks |-> 3]

\* A snapshot that has the mode, the time and the count and nothing else
BareSnapshot ==
    [currentMode |-> "work", timeLeft |-> 90, completedSessions |-> 1]

\* what localStorage holds when the page is first opened
InitialStorage == {NoData, jsonBlob(OldSnapshot)}

\* well-formed snapshots the page is first opened on where the startup load
\* is followed: also a full one, and one without tasks, history and
\* totalBreaks
FirstStorage ==
    InitialStorage \cup {jsonBlob(FullSnapshot), jsonBlob(BareSnapshot)}

\* stored values the application cannot read back: text that is no JSON, a
\* snapshot with an unknown mode
MalformedStorage == {[kind |-> "garbage"], jsonBlob(BadModeFile)}

\* A file that holds the JSON text []
ArrayFile == [kind |-> "array", data |-> <<>>]

\* the files the user picks for import
ImportFiles ==
    {[kind |-> "garbage"], [kind |-> "null"], ArrayFile,
     jsonBlob(OldSnapshot), jsonBlob(Backup), jsonBlob(BadModeFile),
     jsonBlob(InheritedModeFile)}

---------------------------------------------------------------------------
(* Actions: one handler run each.  The page calls the handlers of the task
   rows, of the history rows and of the set, export and import controls
   through the global (onclick="app.deleteTask(...)"): where app is undefined
   such a click throws before a handler of the application runs, and nothing
   changes.  The buttons of the timer, of the theme and of the task box call
   the listeners bound by init(), whether the constructor returned or not. *)

\* the handler starts with nothing shown
S0 == [S EXCEPT !.out = <<>>]

Set(s) ==
    /\ currentMode' = s.currentMode
    /\ timeLeft' = s.timeLeft
    /\ isRunning' = s.isRunning
    /\ timer' = s.timer
    /\ orphans' = s.orphans
    /\ completedSessions' = s.completedSessions
    /\ totalBreaks' = s.totalBreaks
    /\ tasks' = s.tasks
    /\ history' = s.history
    /\ achievements' = s.achievements
    /\ isDark' = s.isDark
    /\ storage' = s.storage
    /\ timeouts' = s.timeouts
    /\ messages' = s.messages
    /\ out' = s.out
    /\ now' = s.now
    /\ hour' = s.hour
    /\ app' = s.app

\* the variables hold the state s
Is(s) ==
    /\ currentMode = s.currentMode
    /\ timeLeft = s.timeLeft
    /\ isRunning = s.isRunning
    /\ timer = s.timer
    /\ orphans = s.orphans
    /\ completedSessions = s.completedSessions
    /\ totalBreaks = s.totalBreaks
    /\ tasks = s.tasks
    /\ history = s.history
    /\ achievements = s.achievements
    /\ isDark = s.isDark
    /\ storage = s.storage
    /\ timeouts = s.timeouts
    /\ messages = s.messages
    /\ out = s.out
    /\ now = s.now
    /\ hour = s.hour
    /\ app = s.app

NoCd == [active |-> FALSE, mode |-> "work", ticks |-> 0, completions |-> 0]

\* completeSession calls a handler run made, read off the messages it showed
completionsIn(q) ==
    Len(Filter(LAMBDA e : e.kind \in {"sessionComplete", "breakComplete"}, q))

Start ==
    /\ timer = "live" => orphans < MaxOrphans
    /\ Set(startTimer(S0))

Pause ==
    /\ Set(pauseTimer(S0))

Reset ==
    /\ Set(resetTimer(S0))

SwitchMode(mode) ==
    /\ Set(switchMode(S0, mode))

\* the next firing runs completeSession
reachesZero == atMostZero(decrement(timeLeft))

\* the bounds on what one more firing may drive
TickBounds ==
    /\ reachesZero => decrement(timeLeft) >= -MaxOverrun
    /\ reachesZero => Len(timeouts) < MaxTimeouts

\* the firing that completes a work session does so below max sessions
Sessions(max) ==
    (reachesZero /\ currentMode = "work") => completedSessions < max

\* the delay a callback is registered with, in ms: the deferred switchMode,
\* the welcome message, the milestone message
delay(kind) ==
    CASE kind = "switch" -> 1000
      [] kind = "welcome" -> 1500
      [] kind = "milestone" -> 5000

\* An interval fires every 1000 ms after it was set, and of two timers due
\* at the same time the one registered first runs first.  Before a callback
\* registered with a delay of ms runs, the intervals set after it fire at
\* most firingsOfNew(ms) times, one that was set before it firingsOfOld(ms)
\* times.
firingsOfNew(ms) == (ms - 1) \div 1000

firingsOfOld(ms) == (ms + 999) \div 1000

\* One more firing leaves the pending callback c pending.  The intervals
\* this.timer names while c is pending are set after c and one after the
\* other is cleared or replaced, so together they fire as often as one of
\* them; an orphan fires beside them
allows(c, from) ==
    IF from = "timer"
    THEN c.seen + 1 <= firingsOfNew(delay(c.kind))
    ELSE c.beside + 1 <= c.old * firingsOfOld(delay(c.kind))
                         + (orphans - c.old) * firingsOfNew(delay(c.kind))

TimeoutsAllow(from) ==
    /\ \A i \in 1..Len(timeouts) : allows(timeouts[i], from)
    /\ \A i \in 1..Len(messages) : allows(messages[i], from)

\* the interval is active
alive(from) == IF from = "timer" THEN timer = "live" ELSE orphans > 0

\* one second of an interval passes: an active interval fires
Firing ==
    \E from \in Intervals :
        /\ alive(from)
        /\ TickBounds
        /\ TimeoutsAllow(from)
        /\ Set(fire(S0, from))

Tick ==
    /\ Sessions(MaxSessions)
    /\ Firing

\* a pending switch has one switch less ahead of it
switchDone(q) ==
    [i \in 1..Len(q) |->
        [q[i] EXCEPT !.ahead = IF @ > 0 THEN @ - 1 ELSE 0]]

\* the oldest pending setTimeout(switchMode) callback runs; the welcome
\* message, due 1500 ms after the construction, has run before
DeferredSwitch ==
    /\ timeouts # <<>>
    /\ \A i \in 1..Len(messages) : messages[i].kind # "welcome"
    /\ Set(switchMode([S0 EXCEPT !.timeouts = Tail(@),
                                 !.messages = switchDone(@)],
                      Head(timeouts).mode))

\* the oldest pending setTimeout(showCharacterMessage) callback runs, after
\* the deferred switches that were due before it
MessageTimeout ==
    /\ messages # <<>>
    /\ Head(messages).ahead = 0
    /\ Set(showCharacterMessage([S0 EXCEPT !.messages = Tail(@)],
                                Head(messages).kind))

ToggleTheme ==
    /\ Set(toggleTheme(S0))

\* the export button: a file with the snapshot is downloaded, a message shown
ExportData ==
    /\ app
    /\ Set(showCharacterMessage(S0, "taskComplete"))

\* the countdown is in its first or in its last seconds, or over
AtEdge ==
    \/ timeLeft <= MaxEdge
    \/ currentMode \in Modes /\ timeLeft >= duration(currentMode) - MaxEdge

AddTask(inputs) ==
    /\ Len(tasks) < MaxTasks
    /\ \E input \in inputs : Set(addTask(S0, input))

ToggleTask(ids) ==
    /\ app
    /\ \E id \in ids : Set(toggleTask(S0, id))

DeleteTask(ids) ==
    /\ app
    /\ \E id \in ids : Set(deleteTask(S0, id))

FinishCurrentSet(inputs) ==
    /\ app
    /\ Len(history) < MaxHistory
    /\ \E input \in inputs : Set(finishCurrentSet(S0, input))

\* finishCurrentSet with room for MaxArchived records
Archive(inputs) ==
    /\ app
    /\ Len(history) < MaxArchived
    /\ \E input \in inputs : Set(finishCurrentSet(S0, input))

StartNewSet(inputs) ==
    /\ app
    /\ Len(history) < MaxHistory
    /\ \E input \in inputs, confirmed \in BOOLEAN :
          Set(startNewSet(S0, input, confirmed))

DeleteHistory(ids) ==
    /\ app
    /\ \E id \in ids : Set(deleteHistory(S0, id))

\* a file is picked and read: reader.onload runs
Import(files) ==
    /\ app
    /\ \E file \in files, confirmed \in BOOLEAN :
          Set(importData(S0, file, confirmed))

\* a file is picked and cannot be read: reader.onerror runs
ImportUnread ==
    /\ app
    /\ Set(readError(S0))

\* the page is loaded again: intervals and timeouts of the old page are gone
Reload ==
    /\ Set(construct(storage, now, hour))

\* the clock moves on
AdvanceClock ==
    /\ now < MaxClock
    /\ Set([S EXCEPT !.now = @ + 1])

\* the hour of the day changes
HourPasses ==
    /\ \E h \in Hours \ {hour} : Set([S EXCEPT !.hour = h])

---------------------------------------------------------------------------
(* Observers.  lastOp names the handler that ran last.  cd follows one
   countdown: it starts when startTimer runs on an idle timer showing the
   full duration of the mode, counts the interval firings and the
   completeSession calls since, and ends when another handler sets the
   time or starts a second interval. *)

Did(op) == lastOp' = op /\ UNCHANGED cd

StartObserved ==
    /\ lastOp' = "startTimer"
    /\ cd' = IF activeIntervals(S) = 0 /\ timeLeft = duration(currentMode)
             THEN [active |-> TRUE, mode |-> currentMode, ticks |-> 0,
                   completions |-> 0]
             ELSE NoCd

TickObserved ==
    /\ lastOp' = "tick"
    /\ cd' = IF cd.active
             THEN [cd EXCEPT !.ticks = @ + 1,
                             !.completions = @ + completionsIn(out')]
             ELSE cd

Ends(op) == lastOp' = op /\ cd' = NoCd

---------------------------------------------------------------------------
(* The timer alone: first run (nothing stored), every second a step *)

InitTimer ==
    /\ Is(construct(NoData, 1, 6))
    /\ lastOp = "constructor"
    /\ cd = NoCd

NextTimer ==
    \/ Start /\ StartObserved
    \/ Pause /\ Did("pauseTimer")
    \/ Reset /\ Ends("resetTimer")
    \/ \E mode \in Modes :
          SwitchMode(mode) /\ (IF isRunning THEN Did("switchMode")
                               ELSE Ends("switchMode"))
    \/ Tick /\ TickObserved
    \/ MessageTimeout /\ Did("messageTimeout")
    \/ DeferredSwitch /\ (IF isRunning THEN Did("deferredSwitch")
                          ELSE Ends("deferredSwitch"))

SpecTimer == InitTimer /\ [][NextTimer]_vars

-------------------------------------------------------------------------------------------------------------------------------------------------
(* The session machine: the buttons of the timer, the interval and timeout
   callbacks, import, export and reload, second by second.  The start
   button is hidden while the timer runs: here it is pressed on an idle
   timer only. *)

\* start pressed where the page shows the button
StartIdle ==
    /\ ~isRunning
    /\ Start

Init ==
    /\ \E store \in InitialStorage : Is(construct(store, 1, 6))
    /\ lastOp = "constructor"
    /\ cd = NoCd

Next ==
    \/ StartIdle /\ Did("startTimer")
    \/ Pause /\ Did("pauseTimer")
    \/ Reset /\ Did("resetTimer")
    \/ \E mode \in Modes : SwitchMode(mode) /\ Did("switchMode")
    \/ Tick /\ Did("tick")
    \/ MessageTimeout /\ Did("messageTimeout")
    \/ DeferredSwitch /\ Did("deferredSwitch")
    \/ Import({jsonBlob(Backup)}) /\ Did("importData")
    \/ Reload /\ Did("loadData")
    \/ ExportData /\ Did("exportData")

Spec == Init /\ [][Next]_vars

---------------------------------------------------------------------------
(* The cycle of sessions: from the first run, second by second, the timer
   started only when no deferred switch is pending; no manual switch, reset,
   archive or import *)

StartAfterSwitch ==
    /\ timeouts = <<>>
    /\ Start

InitCycle ==
    /\ Is(construct(NoData, 1, 6))
    /\ lastOp = "constructor"
    /\ cd = NoCd

NextCycle ==
    \/ StartAfterSwitch /\ Did("startTimer")
    \/ Pause /\ Did("pauseTimer")
    \/ Tick /\ Did("tick")
    \/ MessageTimeout /\ Did("messageTimeout")
    \/ DeferredSwitch /\ Did("deferredSwitch")

SpecCycle == InitCycle /\ [][NextCycle]_vars

---------------------------------------------------------------------------
(* Import and startup load, with files and stored values of every kind, on a
   timer that may be running *)

InitImport ==
    /\ \E store \in FirstStorage \cup MalformedStorage :
          Is(construct(store, 1, 6))
    /\ lastOp = "constructor"
    /\ cd = NoCd

NextImport ==
    \/ StartIdle /\ Did("startTimer")
    \/ Tick /\ Did("tick")
    \/ MessageTimeout /\ Did("messageTimeout")
    \/ DeferredSwitch /\ Did("deferredSwitch")
    \/ Import(ImportFiles) /\ Did("importData")
    \/ ImportUnread /\ Did("importData")
    \/ Reset /\ Did("resetTimer")
    \/ Reload /\ Did("loadData")

SpecImport == InitImport /\ [][NextImport]_vars

---------------------------------------------------------------------------
(* Tasks and sets: the task list, the archive, the theme and export buttons
   and the clock, on an idle timer *)

InitSets ==
    /\ \E store \in InitialStorage : Is(construct(store, 1, 6))
    /\ lastOp = "constructor"
    /\ cd = NoCd

NextSets ==
    \/ AddTask(TaskInputs) /\ Did("addTask")
    \/ ToggleTask(IdArgs) /\ Did("toggleTask")
    \/ DeleteTask(IdArgs) /\ Did("deleteTask")
    \/ FinishCurrentSet(NameInputs) /\ Did("finishCurrentSet")
    \/ StartNewSet({<<>>}) /\ Did("startNewSet")
    \/ DeleteHistory(IdArgs) /\ Did("deleteHistory")
    \/ AdvanceClock /\ Did("clock")
    \/ MessageTimeout /\ Did("messageTimeout")
    \/ ToggleTheme /\ Did("toggleTheme")
    \/ ExportData /\ Did("exportData")

SpecSets == InitSets /\ [][NextSets]_vars

---------------------------------------------------------------------------
(* The archive: sets archived one after the other, at the same clock
   reading or at different ones, and records deleted *)

InitHistory ==
    /\ Is(construct(NoData, 1, 6))
    /\ lastOp = "constructor"
    /\ cd = NoCd

NextHistory ==
    \/ AddTask({<<" ", "a", " ">>}) /\ Did("addTask")
    \/ ToggleTask(IdArgs) /\ Did("toggleTask")
    \/ Archive({<<>>}) /\ Did("finishCurrentSet")
    \/ DeleteHistory(IdArgs) /\ Did("deleteHistory")
    \/ AdvanceClock /\ Did("clock")

SpecHistory == InitHistory /\ [][NextHistory]_vars

---------------------------------------------------------------------------
(* Restoring the achievements: snapshots with a full and with a partial
   list of achievements, loaded at startup and imported between and during
   sessions *)

InitRestore ==
    /\ \E store \in {NoData, jsonBlob(PartialBackup)} :
          Is(construct(store, 1, 6))
    /\ lastOp = "constructor"
    /\ cd = NoCd

NextRestore ==
    \/ StartIdle /\ Did("startTimer")
    \/ Tick /\ Did("tick")
    \/ MessageTimeout /\ Did("messageTimeout")
    \/ DeferredSwitch /\ Did("deferredSwitch")
    \/ Import(RestoreFiles) /\ Did("importData")
    \/ ImportUnread /\ Did("importData")
    \/ Reload /\ Did("loadData")

SpecRestore == InitRestore /\ [][NextRestore]_vars

---------------------------------------------------------------------------
(* Tasks and sets while the timer runs: the task list and the archive are
   edited beside the interval firings, in the first and in the last seconds
   of a countdown *)

\* start pressed on an idle timer
StartSession ==
    /\ ~isRunning
    /\ StartAfterSwitch

\* start pressed on an idle timer, a work session started early in a set
StartSet ==
    /\ ~isRunning
    /\ currentMode = "work" => completedSessions < MaxCounted
    /\ StartAfterSwitch

InitBusy ==
    /\ Is(construct(NoData, 1, 6))
    /\ lastOp = "constructor"
    /\ cd = NoCd

NextBusy ==
    \/ StartSet /\ Did("startTimer")
    \/ Tick /\ Did("tick")
    \/ MessageTimeout /\ Did("messageTimeout")
    \/ DeferredSwitch /\ Did("deferredSwitch")
    \/ AtEdge /\ Len(tasks) < MaxBeside /\ AddTask({<<" ", "a", " ">>})
          /\ Did("addTask")
    \/ AtEdge /\ ToggleTask({1}) /\ Did("toggleTask")
    \/ AtEdge /\ DeleteTask({1}) /\ Did("deleteTask")
    \/ AtEdge /\ FinishCurrentSet({<<>>}) /\ Did("finishCurrentSet")
    \/ AtEdge /\ DeleteHistory({1}) /\ Did("deleteHistory")

SpecBusy == InitBusy /\ [][NextBusy]_vars

---------------------------------------------------------------------------
(* A long set: session after session, second by second, the set archived
   at the start or at the end of a countdown, or not at all *)

InitLongSet ==
    /\ Is(construct(NoData, 1, 6))
    /\ lastOp = "constructor"
    /\ cd = NoCd

NextLongSet ==
    \/ StartSession /\ Did("startTimer")
    \/ Sessions(MaxLongSet) /\ Firing /\ Did("tick")
    \/ MessageTimeout /\ Did("messageTimeout")
    \/ DeferredSwitch /\ Did("deferredSwitch")
    \/ AtEdge /\ FinishCurrentSet({<<>>}) /\ Did("finishCurrentSet")

SpecLongSet == InitLongSet /\ [][NextLongSet]_vars

---------------------------------------------------------------------------
(* Achievements: completions at different hours of one day, the hour
   changing between the countdowns, with the archive, which changes what
   the rules read, and the import, which writes the flags *)

InitAch ==
    /\ Is(construct(NoData, 1, 6))
    /\ lastOp = "constructor"
    /\ cd = NoCd

NextAch ==
    \/ StartSession /\ Did("startTimer")
    \/ Sessions(MaxRuled) /\ Firing /\ Did("tick")
    \/ MessageTimeout /\ Did("messageTimeout")
    \/ DeferredSwitch /\ Did("deferredSwitch")
    \/ ~isRunning /\ HourPasses /\ hour' > hour /\ Did("clock")
    \/ AtEdge /\ FinishCurrentSet({<<>>}) /\ Did("finishCurrentSet")
    \/ Import({jsonBlob(Backup)}) /\ Did("importData")

SpecAch == InitAch /\ [][NextAch]_vars

---------------------------------------------------------------------------
(* What an unlocked achievement goes through: session completions, task
   edits, the archive, history deletion, the import of a backup and a page
   load, the edits, the import and the load in the first and in the last
   seconds of a countdown *)

InitUnlock ==
    /\ Is(construct(NoData, 1, 6))
    /\ lastOp = "constructor"
    /\ cd = NoCd

NextUnlock ==
    \/ StartSet /\ Did("startTimer")
    \/ Tick /\ Did("tick")
    \/ MessageTimeout /\ Did("messageTimeout")
    \/ DeferredSwitch /\ Did("deferredSwitch")
    \/ AtEdge /\ Len(tasks) < MaxBeside /\ AddTask({<<" ", "a", " ">>})
          /\ Did("addTask")
    \/ AtEdge /\ ToggleTask({1, 2}) /\ Did("toggleTask")
    \/ AtEdge /\ DeleteTask({1, 2}) /\ Did("deleteTask")
    \/ AtEdge /\ FinishCurrentSet({<<>>}) /\ Did("finishCurrentSet")
    \/ AtEdge /\ DeleteHistory({1}) /\ Did("deleteHistory")
    \/ AtEdge /\ Import({jsonBlob(Backup)}) /\ Did("importData")
    \/ AtEdge /\ Reload /\ Did("loadData")

SpecUnlock == InitUnlock /\ [][NextUnlock]_vars

---------------------------------------------------------------------------
(* Properties of the session machine (Spec) *)

Breaks == {"short-break", "long-break"}

\* the fields of the application and the stored snapshot
AppFields ==
    <<currentMode, timeLeft, isRunning, timer, orphans, completedSessions,
      totalBreaks, tasks, history, achievements, storage>>

\* the last handler run showed a message of the kind, or threw
shown(kind) == \E i \in 1..Len(out) : out[i].kind = kind

\* the step is an interval firing that reaches zero: completeSession runs
Completes == lastOp' = "tick" /\ reachesZero

\* the mode of the setTimeout callback scheduled last
scheduled(q) == q[Len(q)].mode

\* C1: for every mode m, switchMode(m) while the timer is running leaves
\* currentMode, timeLeft, isRunning, completedSessions, tasks, history,
\* achievements and the persisted snapshot as they were.
C1_SwitchModeWhileRunning ==
    [][\A m \in Modes :
          (isRunning /\ SwitchMode(m)) =>
              UNCHANGED <<currentMode, timeLeft, isRunning, completedSessions,
                          tasks, history, achievements, storage>>]_vars

\* switchMode was called on a running timer, part of the way through a
\* countdown
C1_Witness ==
    /\ lastOp = "switchMode"
    /\ isRunning
    /\ timeLeft < duration(currentMode)

\* C2: in every reachable state 0 <= timeLeft <= duration(currentMode).
C2_TimeLeftInRange ==
    /\ 0 <= timeLeft
    /\ timeLeft <= duration(currentMode)

\* C3: when a work countdown completes, completedSessions grows by exactly
\* one and the completion schedules long-break iff the new count is
\* divisible by 4, short-break otherwise.
C3_WorkCompletion ==
    [][(Completes /\ currentMode = "work") =>
          /\ completedSessions' = completedSessions + 1
          /\ timeouts' # <<>>
          /\ scheduled(timeouts') =
                IF completedSessions' % 4 = 0 THEN "long-break"
                ELSE "short-break"]_vars

\* the fourth work session has just completed and long-break is scheduled
C3_Witness ==
    /\ lastOp = "tick"
    /\ currentMode = "work"
    /\ Ev("sessionComplete", "") \in Range(out)
    /\ completedSessions = 4
    /\ timeouts # <<>>
    /\ scheduled(timeouts) = "long-break"

\* C4: when a short-break or long-break countdown completes, the
\* completion schedules work and completedSessions is unchanged.
C4_BreakCompletion ==
    [][(Completes /\ currentMode \in Breaks) =>
          /\ completedSessions' = completedSessions
          /\ timeouts' # <<>>
          /\ scheduled(timeouts') = "work"]_vars

\* a long break has just completed, after sessions were counted
C4_Witness ==
    /\ lastOp = "tick"
    /\ currentMode = "long-break"
    /\ Ev("breakComplete", "") \in Range(out)
    /\ completedSessions > 0
    /\ timeouts # <<>>
    /\ scheduled(timeouts) = "work"

\* C7: every completion of a short-break or long-break countdown increases
\* totalBreaks by exactly 1.
C7_BreakCounted ==
    [][(Completes /\ currentMode \in Breaks) =>
          totalBreaks' = totalBreaks + 1]_vars

\* the state a fresh application loads from what saveData writes now
reloaded == construct(saveData(S).storage, now, hour)

\* C8: saving a reachable state with saveData and loading it with loadData
\* on a fresh application gives a state equal in mode, timeLeft,
\* completedSessions, totalBreaks, tasks, history and unlock flags.
C8_RoundTrip ==
    /\ reloaded.currentMode = currentMode
    /\ reloaded.timeLeft = timeLeft
    /\ reloaded.completedSessions = completedSessions
    /\ reloaded.totalBreaks = totalBreaks
    /\ Map(taskJSON, reloaded.tasks) = Map(taskJSON, tasks)
    /\ Map(setJSON, reloaded.history) = Map(setJSON, history)
    /\ \A id \in AchIdSet :
          reloaded.achievements[id].unlocked = achievements[id].unlocked

\* the persisted fields of a state, as values
persisted(s) ==
    [currentMode |-> s.currentMode, timeLeft |-> s.timeLeft,
     completedSessions |-> s.completedSessions,
     totalBreaks |-> s.totalBreaks,
     tasks |-> Map(taskJSON, s.tasks),
     history |-> Map(setJSON, s.history),
     flags |-> [id \in AchIdSet |-> s.achievements[id].unlocked]]

\* the same fields as the stored snapshot carries them
snapshot(d) ==
    [currentMode |-> d.currentMode, timeLeft |-> d.timeLeft,
     completedSessions |-> d.completedSessions,
     totalBreaks |-> d.totalBreaks,
     tasks |-> d.tasks,
     history |-> d.history,
     flags |-> [id \in AchIdSet |->
                  \E i \in 1..Len(d.achievements) :
                      d.achievements[i].id = id /\ d.achievements[i].unlocked]]

\* C14: after every operation that changes a persisted field (mode,
\* timeLeft, completedSessions, totalBreaks, tasks, history, achievement
\* flags), timer ticks included, the stored snapshot equals the state in all
\* of those fields.
C14_WriteThrough ==
    [][persisted(S)' # persisted(S) =>
          /\ storage'.kind = "json"
          /\ snapshot(storage'.data) = persisted(S)']_vars

\* the step is the deferred switchMode, and the handler before it was one
\* the user ran while it was pending
StaleSwitch ==
    /\ lastOp' = "deferredSwitch"
    /\ lastOp \in {"switchMode", "resetTimer", "importData", "finishCurrentSet"}

\* C23: when the user switched mode, reset, archived or imported while the
\* deferred switch was pending, the deferred callback changes nothing: the
\* mode and timeLeft the user chose stay.
C23_DeferredSwitchGuarded ==
    [][StaleSwitch => UNCHANGED <<currentMode, timeLeft>>]_vars

\* C24: pause leaves the timer not running, changes nothing on an idle
\* timer, and a second pause changes nothing more; reset gives the state of
\* pause with timeLeft = duration(currentMode), for a mode that has a
\* duration: not running, mode, completedSessions, tasks, history and
\* achievements unchanged.
C24_PauseReset ==
    [][/\ lastOp' = "pauseTimer" =>
             /\ ~isRunning'
             /\ ~isRunning => UNCHANGED AppFields
             /\ pauseTimer(S)' = S'
       /\ lastOp' = "resetTimer" =>
             /\ ~isRunning'
             /\ currentMode \in Modes => timeLeft' = duration(currentMode)
             /\ timer' = pauseTimer(S).timer
             /\ orphans' = pauseTimer(S).orphans
             /\ UNCHANGED <<currentMode, completedSessions, totalBreaks,
                            tasks, history, achievements>>]_vars

\* reset has stopped a countdown and restored the full time
C24_Witness ==
    /\ lastOp = "resetTimer"
    /\ ~isRunning
    /\ timer = "cleared"
    /\ timeLeft = duration(currentMode)
    /\ completedSessions > 0

\* C25: at most one interval is active, and one is active iff isRunning.
C25_OneTickSource ==
    /\ activeIntervals(S) <= 1
    /\ isRunning <=> activeIntervals(S) = 1

\* C26: once the deferred callback has fired, currentMode is the mode the
\* completion selected and timeLeft is its full duration, also when start
\* was pressed during the delay.
C26_DeferredSwitchTakesEffect ==
    [][lastOp' = "deferredSwitch" =>
          /\ currentMode' = Head(timeouts).mode
          /\ timeLeft' = duration(Head(timeouts).mode)]_vars

\* C27: completeSession runs only in the tick that takes timeLeft from 1 to
\* 0, never with timeLeft below 0.
C27_CompletionAtZero ==
    [][(lastOp' = "tick" /\ completionsIn(out') > 0) =>
          /\ timeLeft = 1
          /\ timeLeft' = 0]_vars

\* C28: an operation that finds the timer running and leaves it running
\* leaves currentMode unchanged.
C28_ModeFixedWhileRunning ==
    [][(isRunning /\ isRunning') => currentMode' = currentMode]_vars

---------------------------------------------------------------------------
(* Properties of the countdown (SpecTimer) *)

\* C5: from a freshly selected mode with the timer started once, the
\* countdown shows duration - k after k ticks with no completion before the
\* last one; the tick number duration(mode) brings timeLeft to 0 and calls
\* completeSession exactly once, and no interval is left to fire again.
C5_FreshCountdown ==
    cd.active =>
        /\ cd.ticks <= duration(cd.mode)
        /\ cd.ticks < duration(cd.mode) =>
              /\ cd.completions = 0
              /\ timeLeft = duration(cd.mode) - cd.ticks
        /\ cd.ticks = duration(cd.mode) =>
              /\ cd.completions = 1
              /\ activeIntervals(S) = 0
              /\ lastOp = "tick" => timeLeft = 0

\* a work countdown started once has received its 1500 ticks
C5_Witness ==
    /\ cd.active
    /\ cd.mode = "work"
    /\ cd.ticks = duration("work")
    /\ cd.completions = 1
    /\ lastOp = "tick"
    /\ timeLeft = 0

\* C22: the encouragement message is shown by exactly the tick of a work
\* countdown after which timeLeft = 750, never in a break mode; every tick
\* lowers timeLeft by one and start and pause leave it alone, so a countdown
\* from 1500 shows it once, at its tick number 750, pause and resume or not.
C22_Encouragement ==
    [][/\ shown("encouragement")' <=>
             (lastOp' = "tick" /\ currentMode = "work" /\ timeLeft' = 750)
       /\ lastOp' = "tick" => timeLeft' = timeLeft - 1
       /\ lastOp' \in {"startTimer", "pauseTimer"} => timeLeft' = timeLeft
       /\ (shown("encouragement")' /\ cd.active) => cd'.ticks = 750]_vars

\* a work countdown started once from 1500 has just shown the message
C22_Witness ==
    /\ lastOp = "tick"
    /\ shown("encouragement")
    /\ currentMode = "work"
    /\ timeLeft = 750
    /\ cd.active
    /\ cd.ticks = 750

---------------------------------------------------------------------------
(* Properties of the cycle of sessions (SpecCycle) *)

\* C21: with the timer started only after the previous deferred switch took
\* effect and no archive, manual switch or import, every work completion
\* counts one session, the 1st, 2nd and 3rd route to short-break, the 4th to
\* long-break with completedSessions = 4, every break completion routes to
\* work, and the deferred switch enters the mode routed to.
C21_FourSessions ==
    [][/\ (Completes /\ currentMode = "work") =>
             /\ completedSessions' = completedSessions + 1
             /\ completedSessions' \in {1, 2, 3} =>
                   scheduled(timeouts') = "short-break"
             /\ completedSessions' = 4 => scheduled(timeouts') = "long-break"
       /\ (Completes /\ currentMode \in Breaks) =>
             /\ completedSessions' = completedSessions
             /\ scheduled(timeouts') = "work"
       /\ ~Completes => completedSessions' = completedSessions
       /\ lastOp' = "deferredSwitch" =>
             /\ currentMode' = Head(timeouts).mode
             /\ timeLeft' = duration(currentMode')]_vars

\* the deferred switch after the fourth work session entered long-break
C21_Witness ==
    /\ lastOp = "deferredSwitch"
    /\ currentMode = "long-break"
    /\ timeLeft = duration("long-break")
    /\ completedSessions = 4

---------------------------------------------------------------------------
(* Properties of the archive (SpecHistory) *)

\* the positions of the records that do not carry the id
keptAt(id) == {i \in 1..Len(history) : history[i].id # id}

\* the k-th of a set of positions
kth(ps, k) == CHOOSE i \in ps : Cardinality({j \in ps : j <= i}) = k

\* C31: an archive puts the new record at index 1 and keeps the existing
\* records in their order; deleteHistory(id) drops the records with the id,
\* keeps the others in their order and changes nothing for an unknown id;
\* no other operation, import and load apart, changes a record.
C31_HistoryOrder ==
    [][/\ lastOp' = "finishCurrentSet" =>
             /\ Len(history') = Len(history) + 1
             /\ Tail(history') = history
             /\ history'[1].completedSessions = completedSessions
             /\ history'[1].date = now
       /\ \A id \in IdArgs :
             (lastOp' = "deleteHistory" /\ Set(deleteHistory(S0, id))) =>
                 /\ Len(history') = Cardinality(keptAt(id))
                 /\ \A k \in 1..Len(history') :
                       history'[k] = history[kth(keptAt(id), k)]
                 /\ keptAt(id) = 1..Len(history) =>
                       UNCHANGED <<currentMode, timeLeft, isRunning,
                                   completedSessions, totalBreaks, tasks,
                                   history, achievements>>
       /\ lastOp' = "startNewSet" =>
             history' = history \/ Tail(history') = history
       /\ lastOp' \notin {"finishCurrentSet", "startNewSet", "deleteHistory",
                          "importData", "loadData", "constructor"} =>
             history' = history]_vars

\* a second set was archived later than the first: it is at index 1, the
\* older record behind it
C31_Witness ==
    /\ lastOp = "finishCurrentSet"
    /\ Len(history) = 2
    /\ history[1].date = 2
    /\ history[2].date = 1
    /\ history[1].name # history[2].name
    /\ history[2].tasks # <<>>

\* C32: the records of history have pairwise distinct ids in every
\* reachable state, also after two archives at the same clock value.
C32_UniqueHistoryIds ==
    \A i, j \in 1..Len(history) : i # j => history[i].id # history[j].id

---------------------------------------------------------------------------
(* Properties of the task and archive handlers beside the timer (SpecBusy) *)

\* the timer, the pending switches and the achievement flags
TimerAndFlags ==
    <<currentMode, timeLeft, isRunning, timer, orphans, timeouts, totalBreaks,
      [id \in AchIdSet |-> achievements[id].unlocked]>>

\* C34: addTask, toggleTask, deleteTask and deleteHistory leave currentMode,
\* timeLeft, isRunning, the intervals, totalBreaks, completedSessions and
\* every unlocked flag unchanged; finishCurrentSet leaves all of these but
\* completedSessions unchanged; also while the timer runs.
C34_TimerUntouched ==
    [][/\ lastOp' \in {"addTask", "toggleTask", "deleteTask", "deleteHistory"} =>
             UNCHANGED <<TimerAndFlags, completedSessions>>
       /\ lastOp' = "finishCurrentSet" =>
             /\ UNCHANGED TimerAndFlags
             /\ completedSessions' = 0]_vars

\* a set with a counted session was archived in the middle of a countdown,
\* which goes on
C34_Witness ==
    /\ lastOp = "finishCurrentSet"
    /\ isRunning
    /\ activeIntervals(S) = 1
    /\ currentMode = "short-break"
    /\ timeLeft = 1
    /\ history # <<>>
    /\ history[1].completedSessions = 1
    /\ achievements["first-blood"].unlocked

\* the value of a field of a snapshot, dflt when the field is absent
fieldOr(d, f, dflt) == IF has(d, f) THEN d[f] ELSE dflt

\* the application state s is as startup leaves it after loading the
\* snapshot d
LoadedFrom(d, s) ==
    /\ ~s.isRunning
    /\ activeIntervals(s) = 0
    /\ s.timeouts = <<>>
    /\ s.currentMode = d.currentMode
    /\ s.timeLeft = duration(d.currentMode)
    /\ s.completedSessions = d.completedSessions
    /\ Map(taskJSON, s.tasks) = fieldOr(d, "tasks", <<>>)
    /\ Map(setJSON, s.history) = fieldOr(d, "history", <<>>)
    /\ s.totalBreaks = fieldOr(d, "totalBreaks", 0)

\* the stored snapshot is well formed
WellFormed(store) == store.kind = "json" /\ store.data.currentMode \in Modes

\* C35: after startup load of a well-formed snapshot the timer is idle,
\* timeLeft is the full duration of the stored mode whatever timeLeft was
\* stored, and completedSessions, tasks, history and totalBreaks are the
\* stored values, <<>> for absent tasks or history, 0 for absent totalBreaks.
\* The state after the load is compared with the snapshot the load read:
\* the one the page was first opened on, or the one that was stored when
\* the page was loaded again.
C35_StartupLoad ==
    /\ [](lastOp = "constructor" =>
             \/ threw(S)
             \/ \E store \in FirstStorage :
                   IF WellFormed(store) THEN LoadedFrom(store.data, S)
                   ELSE storage = NoData)
    /\ [][(lastOp' = "loadData" /\ WellFormed(storage)) =>
             LoadedFrom(storage.data, S')]_vars

\* the page was opened on the full snapshot, stored in the middle of a
\* long break (timeLeft 450): the timer is idle at the full 15 minutes, and
\* the sessions, the task, the archived set and the breaks counted are
\* those of the snapshot
C35_Witness ==
    /\ lastOp = "constructor"
    /\ ~isRunning
    /\ activeIntervals(S) = 0
    /\ currentMode = "long-break"
    /\ timeLeft = 900
    /\ FullSnapshot.timeLeft = 450
    /\ completedSessions = FullSnapshot.completedSessions
    /\ Map(taskJSON, tasks) = FullSnapshot.tasks
    /\ Map(setJSON, history) = FullSnapshot.history
    /\ history # <<>>
    /\ totalBreaks = FullSnapshot.totalBreaks
    /\ totalBreaks > 0

---------------------------------------------------------------------------
(* Properties of a long set (SpecLongSet) *)

\* C36: completedSessions of the current set is at most 8 in every
\* reachable state, and so is completedSessions of every record of history.
C36_SetOfEight ==
    /\ completedSessions <= 8
    /\ \A i \in 1..Len(history) : history[i].completedSessions <= 8

---------------------------------------------------------------------------
(* Properties of the achievements (SpecAch; C6 under SpecUnlock, C33 under
   SpecRestore) *)

StaysUnlocked ==
    \A id \in AchIdSet :
        achievements[id].unlocked => achievements'[id].unlocked

\* the step is an import the user confirmed: importData went on to assign
\* the fields and ended in the success message or, where switchMode threw,
\* in the TypeError (a file that cannot be read or parsed, or that is no
\* object, ends in another way, before the user is asked)
ImportApplied ==
    /\ lastOp' = "importData"
    /\ \E i \in 1..Len(out') :
          out'[i] \in {Ev("milestone", ""), Ev("throw", "TypeError")}

\* C6: once unlocked, an achievement stays unlocked through every
\* operation: session completions, task and history edits, archive, reload,
\* import of a backup file.
C6_Monotonic == [][StaysUnlocked]_vars

\* the achievements the step unlocks
newlyUnlocked ==
    {id \in AchIdSet : ~achievements[id].unlocked /\ achievements'[id].unlocked}

\* the one of a set of achievements that comes first in the rule table
firstInTable(ids) ==
    AchievementIds[CHOOSE i \in 1..Len(AchievementIds) :
        /\ AchievementIds[i] \in ids
        /\ \A j \in 1..(i - 1) : AchievementIds[j] \notin ids]

\* the achievement notifications a handler run showed, in order
notifications(q) == SelectSeq(q, LAMBDA e : e.kind = "achievement")

\* C15: an evaluation pass that newly unlocks k >= 1 achievements emits
\* exactly one notification, for the one that comes first in the rule table;
\* a pass that unlocks nothing emits none.
C15_OneNotification ==
    [][lastOp' = "tick" =>
          IF newlyUnlocked = {}
          THEN notifications(out') = <<>>
          ELSE notifications(out') =
                  <<Ev("achievement", firstInTable(newlyUnlocked))>>]_vars

\* the third session of a set that was never archived completes at night:
\* night-owl and speed-demon unlock in this pass, night-owl alone is shown
C15_Witness ==
    /\ lastOp = "tick"
    /\ shown("sessionComplete")
    /\ completedSessions = 3
    /\ history = <<>>
    /\ achievements["speed-demon"].unlocked
    /\ notifications(out) = <<Ev("achievement", "night-owl")>>

\* the step is a tick in which completeSession ran
CompletionStep == lastOp' = "tick" /\ completionsIn(out') > 0

\* C29: right after every session completion, work or break, every
\* achievement whose rule holds on the state is unlocked and has an
\* unlockedDate; one whose rule does not hold and that was locked is locked.
C29_RulesThatHoldAreUnlocked ==
    [][CompletionStep =>
          \A id \in AchIdSet :
              /\ condition(id, S)' =>
                    /\ achievements'[id].unlocked
                    /\ achievements'[id].unlockedDate # NoDate
              /\ (~condition(id, S)' /\ ~achievements[id].unlocked) =>
                    ~achievements'[id].unlocked]_vars

\* the first session completed before 7: first-blood and early-bird were
\* unlocked and stamped in the same pass, night-owl was not
C29_Witness ==
    /\ lastOp = "tick"
    /\ shown("sessionComplete")
    /\ completedSessions = 1
    /\ hour < 7
    /\ achievements["first-blood"].unlocked
    /\ achievements["first-blood"].unlockedDate = now
    /\ achievements["early-bird"].unlocked
    /\ achievements["early-bird"].unlockedDate = now
    /\ ~achievements["night-owl"].unlocked

\* C30: outside load and import, night-owl becomes unlocked only in the
\* completion of a work session at an hour >= 22, never in the completion
\* of a break.
C30_NightOwlByNightSession ==
    [][("night-owl" \in newlyUnlocked
          /\ lastOp' \notin {"importData", "loadData", "constructor"}) =>
             /\ CompletionStep
             /\ currentMode = "work"
             /\ hour >= 22]_vars

\* the entries a snapshot has for a rule
entriesFor(d, id) ==
    IF has(d, "achievements")
    THEN {i \in 1..Len(d.achievements) : d.achievements[i].id = id}
    ELSE {}

\* the flags of a rule after the snapshot was restored over the flags cur:
\* those of the last entry with its id, cur if there is none
restored(d, id, cur) ==
    IF entriesFor(d, id) = {} THEN cur
    ELSE LET e == d.achievements[kth(entriesFor(d, id),
                                     Cardinality(entriesFor(d, id)))]
         IN  [unlocked |-> e.unlocked,
              unlockedDate |-> IF has(e, "unlockedDate") THEN e.unlockedDate
                               ELSE NoDate]

\* C33: load and import keep the rule table: the achievements are those of
\* the table, a rule the snapshot has an entry for gets the entry's unlocked
\* and unlockedDate, a rule it has no entry for keeps its flags, an entry
\* with an id the table does not have is ignored.
C33_RestoreById ==
    [][/\ DOMAIN achievements' = AchIdSet
       /\ \A file \in RestoreFiles :
             (ImportApplied /\ Set(importData(S0, file, TRUE))) =>
                 \A id \in AchIdSet :
                     achievements'[id] = restored(file.data, id, achievements[id])
       /\ (lastOp' = "loadData" /\ storage.kind = "json") =>
             \A id \in AchIdSet :
                 achievements'[id] = restored(storage.data, id, lockedTable[id])]_vars

\* the partial backup was imported over a state with first-blood unlocked:
\* speed-demon is unlocked from the file, first-blood kept its flag and date
C33_Witness ==
    /\ lastOp = "importData"
    /\ completedSessions = 1
    /\ achievements["speed-demon"].unlocked
    /\ achievements["first-blood"].unlocked
    /\ achievements["first-blood"].unlockedDate # NoDate
    /\ ~achievements["night-owl"].unlocked

---------------------------------------------------------------------------
(* Properties of import and startup load (SpecImport) *)

AllLocked == \A id \in AchIdSet : ~achievements[id].unlocked

\* C11: an import that reports an error (alert shown) leaves currentMode,
\* timeLeft, completedSessions, tasks, history, totalBreaks, the achievement
\* flags and the stored snapshot exactly as they were before the import.
C11_ImportAllOrNothing ==
    [][(lastOp' = "importData" /\ shown("alert")') =>
          UNCHANGED <<currentMode, timeLeft, completedSessions, tasks, history,
                      totalBreaks, achievements, storage>>]_vars

\* C12: a confirmed import of a file that has no achievements field
\* succeeds and leaves every achievement locked.
C12_ImportWithoutAchievements ==
    [][(lastOp' = "importData"
          /\ Set(importData(S0, jsonBlob(OldSnapshot), TRUE))) =>
             /\ ~shown("alert")'
             /\ AllLocked']_vars

\* the stored value is text that is no JSON, or a snapshot whose mode is
\* none of the three
malformed(store) ==
    \/ store.kind = "garbage"
    \/ store.kind = "json" /\ store.data.currentMode \notin Modes

\* C13: when the stored snapshot is malformed, startup load does not fail
\* and the application is in the default state: work, 1500 seconds, no
\* sessions, no tasks, no history, every achievement locked.
C13_LoadDegradesToDefaults ==
    (lastOp \in {"constructor", "loadData"} /\ malformed(storage)) =>
        /\ ~shown("throw")
        /\ currentMode = "work"
        /\ timeLeft = duration("work")
        /\ completedSessions = 0
        /\ tasks = <<>>
        /\ history = <<>>
        /\ AllLocked

\* the file holds a JSON object
JSONObject(file) == file.kind = "json"

\* C37: an import the user declines, or of a file whose content is not a
\* JSON object, leaves mode, timeLeft, isRunning, completedSessions,
\* totalBreaks, tasks, history, the achievements and the stored snapshot as
\* they were.
C37_RejectedImport ==
    [][\A file \in ImportFiles, confirmed \in BOOLEAN :
          (/\ lastOp' = "importData"
           /\ Set(importData(S0, file, confirmed))
           /\ ~confirmed \/ ~JSONObject(file)) =>
              UNCHANGED <<currentMode, timeLeft, isRunning, completedSessions,
                          totalBreaks, tasks, history, achievements,
                          storage>>]_vars

---------------------------------------------------------------------------
(* Properties of the task list and the archive (SpecSets) *)

Archives == lastOp' = "finishCurrentSet" \/
            (lastOp' = "startNewSet" /\ Len(history') > Len(history))

\* C9: finishCurrentSet adds one history record whose completedSessions and
\* tasks (same tasks, order and completed flags) are those of before the
\* call, and leaves completedSessions = 0 and an empty active list.
C9_Archive ==
    [][Archives =>
          /\ Len(history') = Len(history) + 1
          /\ history'[1].completedSessions = completedSessions
          /\ Map(taskJSON, history'[1].tasks) = Map(taskJSON, tasks)
          /\ completedSessions' = 0
          /\ tasks' = <<>>]_vars

\* a set with counted sessions and two tasks, one of them done, is archived
C9_Witness ==
    /\ lastOp = "finishCurrentSet"
    /\ Len(history) = 1
    /\ history[1].completedSessions = 2
    /\ Len(history[1].tasks) = 2
    /\ history[1].tasks[1].completed # history[1].tasks[2].completed
    /\ completedSessions = 0
    /\ tasks = <<>>

\* C10: no addTask, toggleTask or deleteTask changes the tasks stored in a
\* history record, also when ids equal ids of archived tasks.
C10_ArchiveIndependent ==
    [][lastOp' \in {"addTask", "toggleTask", "deleteTask"} =>
          Map(setJSON, history') = Map(setJSON, history)]_vars

\* toggleTask has just completed an active task whose id an archived task,
\* still open, carries too
C10_Witness ==
    /\ lastOp = "toggleTask"
    /\ Ev("taskComplete", "") \in Range(out)
    /\ \E i \in 1..Len(tasks), k \in 1..Len(history) :
          \E j \in 1..Len(history[k].tasks) :
              /\ tasks[i].completed
              /\ history[k].tasks[j].id = tasks[i].id
              /\ ~history[k].tasks[j].completed

\* a text that is empty or only whitespace
blank(input) == \A i \in 1..Len(input) : input[i] \in WhiteSpace

\* C16: addTask with an empty or whitespace-only text changes nothing, the
\* stored snapshot included; with any other text it appends exactly one task
\* with completed = FALSE and leaves the existing tasks and their order.
C16_AddTask ==
    [][\A input \in TaskInputs :
          (lastOp' = "addTask" /\ Set(addTask(S0, input))) =>
              IF blank(input)
              THEN UNCHANGED AppFields
              ELSE /\ Len(tasks') = Len(tasks) + 1
                   /\ SubSeq(tasks', 1, Len(tasks)) = tasks
                   /\ ~tasks'[Len(tasks')].completed]_vars

\* a task was added behind a completed one
C16_Witness ==
    /\ lastOp = "addTask"
    /\ Len(tasks) = 2
    /\ tasks[1].completed
    /\ ~tasks[2].completed
    /\ tasks[2].text = <<"a">>

\* C17: the tasks of the active list have pairwise distinct ids in every
\* reachable state, also after two addTask calls at the same clock value.
C17_UniqueTaskIds ==
    \A i, j \in 1..Len(tasks) : i # j => tasks[i].id # tasks[j].id

\* the positions of the active tasks with an id
withId(id) == {i \in 1..Len(tasks) : tasks[i].id = id}

\* the first of a set of positions
first(ps) == CHOOSE i \in ps : \A j \in ps : i <= j

\* C18: toggleTask(id) flips the completed flag of the (first) task with
\* that id and changes no other task nor the order; with no such task the
\* state is unchanged; the task-complete message is shown exactly when the
\* flag goes from FALSE to TRUE.
C18_ToggleTask ==
    [][\A id \in IdArgs :
          (lastOp' = "toggleTask" /\ Set(toggleTask(S0, id))) =>
              IF withId(id) = {}
              THEN UNCHANGED AppFields /\ out' = <<>>
              ELSE LET i == first(withId(id))
                   IN  /\ Len(tasks') = Len(tasks)
                       /\ \A j \in 1..Len(tasks) : j # i => tasks'[j] = tasks[j]
                       /\ tasks'[i] = [tasks[i] EXCEPT !.completed = ~@]
                       /\ shown("taskComplete")' <=> ~tasks[i].completed]_vars

\* the second of two tasks was just completed, the first is open
C18_Witness ==
    /\ lastOp = "toggleTask"
    /\ shown("taskComplete")
    /\ Len(tasks) = 2
    /\ ~tasks[1].completed
    /\ tasks[2].completed

\* C19: deleteTask(id) removes the task with that id and keeps every other
\* task in order; with an id no task has, tasks, history, timer state and
\* achievements are unchanged.
C19_DeleteTask ==
    [][\A id \in IdArgs :
          (lastOp' = "deleteTask" /\ Set(deleteTask(S0, id))) =>
              /\ tasks' = SelectSeq(tasks, LAMBDA t : t.id # id)
              /\ withId(id) = {} =>
                    UNCHANGED <<tasks, history, currentMode, timeLeft,
                                isRunning, timer, orphans, completedSessions,
                                totalBreaks, achievements>>]_vars

\* of two tasks the first was deleted: the second object is the list
C19_Witness ==
    /\ lastOp = "deleteTask"
    /\ history = <<>>
    /\ Len(tasks) = 1
    /\ tasks[1].oid = 2

\* the current set has progress
progress == completedSessions > 0 \/ tasks # <<>>

\* C20: startNewSet without progress leaves history, completedSessions,
\* tasks and the stored snapshot unchanged; with progress it archives a set
\* when the user confirms and changes nothing when the user declines.
C20_StartNewSet ==
    [][\A input \in NameInputs, confirmed \in BOOLEAN :
          (lastOp' = "startNewSet" /\ Set(startNewSet(S0, input, confirmed))) =>
              /\ ~progress =>
                    UNCHANGED <<history, completedSessions, tasks, storage>>
              /\ (progress /\ ~confirmed) => UNCHANGED AppFields
              /\ (progress /\ confirmed) =>
                    Len(history') = Len(history) + 1]_vars

\* startNewSet ran on a set without progress and only greeted
C20_Witness ==
    /\ lastOp = "startNewSet"
    /\ shown("welcome")
    /\ ~progress
    /\ history = <<>>

====
